---- MODULE Spec2Model ----
(***************************************************************************)
(* Model of lightning_uq_box/models/cards.py: the diffusion noise          *)
(* scheduler and the conditionally gated guidance networks.                *)
(*                                                                         *)
(* Numbers.  Python floats (float64) are fixed-point numbers with          *)
(* denominator Scale; entries of torch tensors (float32, the default       *)
(* dtype) are fixed-point numbers with the coarser denominator TScale.     *)
(* Storing a Python float in a tensor rounds it to the nearest tensor      *)
(* value (TRound), as the conversion float64 -> float32 does.              *)
(***************************************************************************)
EXTENDS Integers, Sequences, FiniteSets, TLC

VARIABLES sched, noisy, layer, calls, pipe, run, guide, fwd, conv, cfwd

\* ------------------------------------------------------------------ bounds
MaxSteps == 4
MaxBatch == 2
MaxRank == 3
MaxDim == 2
MaxGateSteps == 2
MaxStages == 3
MaxHidden == 2

\* ------------------------------------------------------- number formats
Scale == 10000
TScale == 1000

\* float64 -> float32: round to the nearest tensor value
TRound(v) == (v * TScale + Scale \div 2) \div Scale
\* float32 product, rounded to the nearest tensor value (operands >= 0)
TMul(a, b) == (2 * a * b + TScale) \div (2 * TScale)
\* float64 product
DMul(a, b) == (a * b) \div Scale
\* nearest integer to p / q, p >= 0, q > 0
RoundDiv(p, q) == (2 * p + q) \div (2 * q)
Min(a, b) == IF a <= b THEN a ELSE b

RECURSIVE SqrtSearch(_, _, _)
SqrtSearch(v, lo, hi) ==
    IF lo >= hi THEN lo
    ELSE LET mid == (lo + hi + 1) \div 2
         IN IF mid * mid <= v THEN SqrtSearch(v, mid, hi)
            ELSE SqrtSearch(v, lo, mid - 1)
\* largest r with r * r <= v
ISqrt(v) == SqrtSearch(v, 0, 40000)
\* nearest r to sqrt(v)
NSqrt(v) == LET r == ISqrt(v) IN IF v - r * r > r THEN r + 1 ELSE r
\* x ** 0.5 on a Python float
DSqrt(v) == NSqrt(v * Scale)
\* torch.sqrt on a tensor entry
TSqrt(v) == NSqrt(v * TScale)

\* math.pi
Pi == (31416 * Scale) \div 10000

RECURSIVE CosTerm(_, _)
\* x^(2k) / (2k)! for 0 <= x <= pi/2
CosTerm(x, k) ==
    IF k = 0 THEN Scale
    ELSE (((((CosTerm(x, k - 1) * x) \div Scale) * x) \div Scale) \div ((2 * k - 1) * (2 * k)))
CosSmall(x) ==
    CosTerm(x, 0) - CosTerm(x, 1) + CosTerm(x, 2) - CosTerm(x, 3)
        + CosTerm(x, 4) - CosTerm(x, 5) + CosTerm(x, 6)
\* math.cos on [0, pi]
Cos(x) == IF 2 * x > Pi THEN 0 - CosSmall(Pi - x) ELSE CosSmall(x)

RECURSIVE ExpTerm(_, _)
\* y^k / k! for 0 <= y < 1
ExpTerm(y, k) == IF k = 0 THEN Scale ELSE ((ExpTerm(y, k - 1) * y) \div Scale) \div k
ExpNegSmall(y) ==
    ExpTerm(y, 0) - ExpTerm(y, 1) + ExpTerm(y, 2) - ExpTerm(y, 3)
        + ExpTerm(y, 4) - ExpTerm(y, 5) + ExpTerm(y, 6) - ExpTerm(y, 7)
Sq(a) == DMul(a, a)
\* exp(-z) for 0 <= z <= 8, by exp(-z) = exp(-z/8)^8
ExpNeg(z) == Sq(Sq(Sq(ExpNegSmall(z \div 8))))
\* torch.sigmoid on a tensor entry
TSigmoid(x) ==
    LET z == (IF x < 0 THEN 0 - x ELSE x) * (Scale \div TScale)
        e == ExpNeg(z)
    IN TRound(IF x >= 0 THEN (Scale * Scale) \div (Scale + e)
              ELSE (e * Scale) \div (Scale + e))

\* torch.linspace(start, end, steps) on tensor values
LinSpace(a, b, n) ==
    [i \in 1..n |->
        IF n = 1 THEN a
        ELSE IF 2 * (i - 1) < n THEN a + RoundDiv((i - 1) * (b - a), n - 1)
        ELSE b - RoundDiv((n - i) * (b - a), n - 1)]

Ok(v) == [raised |-> "none", value |-> v]
Raise(e) == [raised |-> e, value |-> <<>>]

\* ----------------------------------------------------------- NoiseScheduler
valid_schedules ==
    <<"linear", "const", "quad", "jsd", "sigmoid", "cosine", "cosine_anneal">>

linear_schedule(n, bs, be) == Ok(LinSpace(TRound(bs), TRound(be), n))

constant_schedule(n, bs, be) == Ok([i \in 1..n |-> TMul(TRound(be), TScale)])

quadratic_schedule(n, bs, be) ==
    LET l == LinSpace(TRound(DSqrt(bs)), TRound(DSqrt(be)), n)
    IN Ok([i \in 1..n |-> TMul(l[i], l[i])])

sigmoid_schedule(n, bs, be) ==
    LET l == LinSpace(0 - 6 * TScale, 6 * TScale, n)
        betas == [i \in 1..n |-> TMul(TSigmoid(l[i]), TRound(be - bs)) + TRound(bs)]
    IN Ok([i \in 1..n |-> TSigmoid(betas[i])])

max_beta == (999 * Scale) \div 1000
cosine_s == (8 * Scale) \div 1000

\* cos(((i / n_steps) + cosine_s) / (1 + cosine_s) * pi / 2) ** 2
CosineBar(i, n) ==
    LET u == (i * Scale) \div n + cosine_s
        f == (DMul((u * Scale) \div (Scale + cosine_s), Pi)) \div 2
    IN Sq(Cos(f))

cosine_schedule(n, bs, be) ==
    Ok([k \in 1..n |->
          TRound(Min(Scale - (CosineBar(k, n) * Scale) \div CosineBar(k - 1, n),
                     max_beta))])

cosine_anneal_schedule(n, bs, be) ==
    IF n = 1 THEN Raise("ZeroDivisionError")
    ELSE Ok([k \in 1..n |->
               LET c == Cos(DMul(((k - 1) * Scale) \div (n - 1), Pi))
               IN TRound(bs + ((be - bs) * (Scale - c)) \div (2 * Scale))])

RECURSIVE cumsum(_)
\* mutant of cumprod: the running sum instead of the running product
cumsum(s) ==
    IF Len(s) <= 1 THEN s
    ELSE LET p == cumsum(SubSeq(s, 1, Len(s) - 1))
         IN Append(p, p[Len(p)] + s[Len(s)])

RECURSIVE cumprod(_)
cumprod(s) ==
    IF Len(s) <= 1 THEN s
    ELSE LET p == cumprod(SubSeq(s, 1, Len(s) - 1))
         IN Append(p, TMul(p[Len(p)], s[Len(s)]))

GeneratorOrder == <<"linear", "const", "quad", "sigmoid", "cosine", "cosine_anneal">>

Generators(n, bs, be) ==
    [linear |-> linear_schedule(n, bs, be),
     const |-> constant_schedule(n, bs, be),
     quad |-> quadratic_schedule(n, bs, be),
     sigmoid |-> sigmoid_schedule(n, bs, be),
     cosine |-> cosine_schedule(n, bs, be),
     cosine_anneal |-> cosine_anneal_schedule(n, bs, be)]

Failed(schedule, n, bs, be, e) ==
    [schedule |-> schedule, n_steps |-> n, beta_start |-> bs, beta_end |-> be,
     status |-> e, betas |-> <<>>, betas_sqrt |-> <<>>, alphas |-> <<>>,
     alphas_cumprod |-> <<>>, alphas_bar_sqrt |-> <<>>,
     one_minus_alphas_bar_sqrt |-> <<>>]

Derived(schedule, n, bs, be, betas) ==
    LET alphas == [i \in 1..n |-> TScale - betas[i]]
        acp == cumprod(alphas)
    IN [schedule |-> schedule, n_steps |-> n, beta_start |-> bs, beta_end |-> be,
        status |-> "ok", betas |-> betas,
        betas_sqrt |-> [i \in 1..n |-> TSqrt(betas[i])],
        alphas |-> alphas,
        alphas_cumprod |-> acp,
        alphas_bar_sqrt |-> [i \in 1..n |-> TSqrt(acp[i])],
        one_minus_alphas_bar_sqrt |-> [i \in 1..n |-> TSqrt(TScale - acp[i])]]

\* mutant of NoiseSchedulerInit: only the requested generator is evaluated
NoiseSchedulerInit_Lazy(schedule, n, bs, be) ==
    IF \A i \in 1..Len(valid_schedules) : valid_schedules[i] # schedule
    THEN Failed(schedule, n, bs, be, "AssertionError")
    ELSE LET g == Generators(n, bs, be)
         IN IF schedule \notin DOMAIN g
            THEN Failed(schedule, n, bs, be, "KeyError")
            ELSE IF g[schedule].raised # "none"
            THEN Failed(schedule, n, bs, be, g[schedule].raised)
            ELSE Derived(schedule, n, bs, be, g[schedule].value)

NoiseSchedulerInit(schedule, n, bs, be) ==
    IF \A i \in 1..Len(valid_schedules) : valid_schedules[i] # schedule
    THEN Failed(schedule, n, bs, be, "AssertionError")
    ELSE LET g == Generators(n, bs, be)
             bad == {i \in 1..Len(GeneratorOrder) : g[GeneratorOrder[i]].raised # "none"}
         IN IF bad # {}
            THEN Failed(schedule, n, bs, be,
                        g[GeneratorOrder[CHOOSE i \in bad : \A j \in bad : i <= j]].raised)
            ELSE IF schedule \notin DOMAIN g
            THEN Failed(schedule, n, bs, be, "KeyError")
            ELSE Derived(schedule, n, bs, be, g[schedule].value)

\* NoiseScheduler.get_noisy_x_at_t(input, t, x)
Ones(k) == [i \in 1..k |-> 1]

\* mutant of get_noisy_x_at_t: one singleton dimension per dimension of x
get_noisy_x_at_t_FullRank(input, t, xshape) ==
    IF \E i \in 1..Len(t) : t[i] < 0 \/ t[i] >= Len(input)
    THEN [status |-> "IndexError", input |-> input, t |-> t, xshape |-> xshape,
          shape |-> <<>>, data |-> <<>>]
    ELSE [status |-> "ok", input |-> input, t |-> t, xshape |-> xshape,
          shape |-> <<Len(t)>> \o Ones(Len(xshape)),
          data |-> [i \in 1..Len(t) |-> input[t[i] + 1]]]

get_noisy_x_at_t(input, t, xshape) ==
    IF \E i \in 1..Len(t) : t[i] < 0 \/ t[i] >= Len(input)
    THEN [status |-> "IndexError", input |-> input, t |-> t, xshape |-> xshape,
          shape |-> <<>>, data |-> <<>>]
    ELSE LET out == [i \in 1..Len(t) |-> input[t[i] + 1]]
             reshape == <<Len(t)>> \o Ones(Len(xshape) - 1)
         IN [status |-> "ok", input |-> input, t |-> t, xshape |-> xshape,
             shape |-> reshape, data |-> out]

\* ------------------------------------------------------------------ tensors
\* A 2-D tensor is the sequence of its rows.  A call result is a record with a
\* status ("ok" or the exception raised) and the rows returned.
Done(rows) == [status |-> "ok", rows |-> rows]
Fail(e) == [status |-> e, rows |-> <<>>]
Batch(x) == Len(x)
Width(x) == Len(x[1])
Max(a, b) == IF a >= b THEN a ELSE b

RECURSIVE Dot(_, _, _)
\* sum over k <= n of w[k] * v[k]
Dot(w, v, n) == IF n = 0 THEN 0 ELSE Dot(w, v, n - 1) + TMul(w[n], v[n])

\* nn.Linear(n_inputs, n_outputs): x @ W^T + b
Linear(lin, x) ==
    IF Width(x) # lin.n_inputs THEN Fail("ShapeError")
    ELSE Done([i \in 1..Batch(x) |->
                 [j \in 1..lin.n_outputs |->
                     Dot(lin.weight[j], x[i], lin.n_inputs) + lin.bias[j]]])

\* elementwise product of two 2-D tensors with broadcasting
BroadcastMul(a, b) ==
    IF \/ (Batch(a) # Batch(b) /\ Batch(a) # 1 /\ Batch(b) # 1)
       \/ (Width(a) # Width(b) /\ Width(a) # 1 /\ Width(b) # 1)
    THEN Fail("ShapeError")
    ELSE Done([i \in 1..Max(Batch(a), Batch(b)) |->
                 [j \in 1..Max(Width(a), Width(b)) |->
                     TMul(a[IF Batch(a) = 1 THEN 1 ELSE i][IF Width(a) = 1 THEN 1 ELSE j],
                          b[IF Batch(b) = 1 THEN 1 ELSE i][IF Width(b) = 1 THEN 1 ELSE j])]])

\* --------------------------------------------------------- ConditionalLinear
\* mutant of ConditionalLinearForward: the gate is looked up but not applied
ConditionalLinearForward_NoGate(m, x, t) ==
    LET out == Linear(m.lin, x)
    IN IF out.status # "ok" THEN out
       ELSE IF \E i \in 1..Len(t) : t[i] < 0 \/ t[i] >= m.n_steps
       THEN Fail("IndexError")
       ELSE out

\* ConditionalLinear.forward(x, t)
ConditionalLinearForward(m, x, t) ==
    LET out == Linear(m.lin, x)
    IN IF out.status # "ok" THEN out
       ELSE IF \E i \in 1..Len(t) : t[i] < 0 \/ t[i] >= m.n_steps
       THEN Fail("IndexError")
       ELSE LET gamma == [i \in 1..Len(t) |-> m.embed[t[i] + 1]]
            IN BroadcastMul(gamma, out.rows)

\* ------------------------------------------------- parameter and input values
\* entry (i, j) of the tensor filled by the named pattern
Entry(p, i, j) ==
    CASE p = "zero" -> 0
      [] p = "one" -> TScale
      [] p = "half" -> TScale \div 2
      [] p = "tiny" -> 1
      [] p = "identity" -> IF i = j THEN TScale ELSE 0
      [] p = "axis" -> IF j = 1 THEN TScale ELSE 0
      [] p = "ramp" -> (TScale \div 2) * i + (TScale \div 4) * j - TScale
      [] p = "steps" -> (TScale \div 10) * (i + 2)
      [] p = "lastcol" -> IF j = 1 THEN TScale ELSE (TScale \div 10) * (i + 2)
Tensor(n, w, p) == [i \in 1..n |-> [j \in 1..w |-> Entry(p, i, j)]]

\* ConditionalLinear(n_inputs, n_outputs, n_steps) with the given parameter values
ConditionalLinear(n_inputs, n_outputs, n_steps, wp, gp) ==
    [kind |-> "ConditionalLinear", n_outputs |-> n_outputs, n_steps |-> n_steps,
     lin |-> [n_inputs |-> n_inputs, n_outputs |-> n_outputs,
              weight |-> Tensor(n_outputs, n_inputs, wp),
              bias |-> Tensor(1, n_outputs, IF wp = "ramp" THEN "half" ELSE "zero")[1]],
     embed |-> Tensor(n_steps, n_outputs, gp)]

\* ------------------------------------------------------------ other layers
\* log(1 + u) for a Python float 0 <= u <= 1
Log1p(u) ==
    LET w == (u * Scale) \div (2 * Scale + u)
        w2 == Sq(w)
        w3 == DMul(w, w2)
        w5 == DMul(w3, w2)
        w7 == DMul(w5, w2)
    IN 2 * (w + w3 \div 3 + w5 \div 5 + w7 \div 7)
\* nn.Softplus on a tensor entry: log(1 + exp(x))
TSoftplus(x) ==
    LET z == (IF x < 0 THEN 0 - x ELSE x) * (Scale \div TScale)
    IN IF z > 8 * Scale THEN Max(x, 0)
       ELSE TRound(Max(x, 0) * (Scale \div TScale) + Log1p(ExpNeg(z)))
Softplus(x) == Done([i \in 1..Batch(x) |-> [j \in 1..Width(x) |-> TSoftplus(x[i][j])]])
ReLU(x) == Done([i \in 1..Batch(x) |-> [j \in 1..Width(x) |-> Max(x[i][j], 0)]])

RECURSIVE ColumnSum(_, _, _)
ColumnSum(x, j, n) == IF n = 0 THEN 0 ELSE ColumnSum(x, j, n - 1) + x[n][j]
RECURSIVE ColumnSquares(_, _, _, _)
\* sum over the batch of (x - mean)^2, unrounded
ColumnSquares(x, j, mean, n) ==
    IF n = 0 THEN 0
    ELSE ColumnSquares(x, j, mean, n - 1) + (x[n][j] - mean) * (x[n][j] - mean)
\* the default eps = 1e-5 of nn.BatchNorm1d, in units of 1 / TScale^2
DefaultEps == (TScale * TScale) \div 100000
\* nn.BatchNorm1d(num_features, eps) in training mode, weight 1 and bias 0;
\* bn.eps and the variance are in units of 1 / TScale^2
BatchNorm1d(bn, x) ==
    IF Width(x) # bn.num_features THEN Fail("ShapeError")
    ELSE IF Batch(x) = 1 THEN Fail("ValueError")
    ELSE LET mean == [j \in 1..Width(x) |-> RoundDiv(ColumnSum(x, j, Batch(x)), Batch(x))]
             var == [j \in 1..Width(x) |->
                        RoundDiv(ColumnSquares(x, j, mean[j], Batch(x)), Batch(x))]
             std == [j \in 1..Width(x) |-> NSqrt(var[j] + bn.eps)]
         IN Done([i \in 1..Batch(x) |->
                    [j \in 1..Width(x) |-> RoundDiv((x[i][j] - mean[j]) * TScale, std[j])]])

\* forward signatures that take the time steps t
RequiresT(kind) ==
    kind \in {"ConditionalLinear", "DiffusionSequential", "ConditionalGuidedLinearModel"}

\* module(input): a stage called with the activation only
CallWithInput(stage, input) ==
    CASE stage.kind = "Linear" -> Linear(stage.lin, input)
      [] stage.kind = "Softplus" -> Softplus(input)
      [] stage.kind = "ReLU" -> ReLU(input)
      [] stage.kind = "BatchNorm1d" -> BatchNorm1d(stage, input)
      [] OTHER -> Fail("TypeError")
\* module(input, t): a stage called with the activation and the time steps
CallWithInputAndT(stage, input, t) ==
    CASE stage.kind = "ConditionalLinear" -> ConditionalLinearForward(stage, input, t)
      [] OTHER -> Fail("TypeError")

\* ------------------------------------------------------- DiffusionSequential
Invoked(stage, input, with_t, t, out) ==
    [kind |-> stage.kind, input |-> input, with_t |-> with_t,
     t |-> IF with_t THEN t ELSE <<>>, out |-> out]

RECURSIVE SequentialFrom_AllT(_, _, _, _)
\* mutant of SequentialFrom: every stage is called with t
SequentialFrom_AllT(stages, k, t, acc) ==
    IF k > Len(stages) \/ acc.status # "ok" THEN acc
    ELSE LET out == CallWithInputAndT(stages[k], acc.rows, t)
         IN SequentialFrom_AllT(stages, k + 1, t,
                [status |-> out.status, rows |-> out.rows,
                 log |-> Append(acc.log, Invoked(stages[k], acc.rows, TRUE, t, out))])

RECURSIVE SequentialFrom(_, _, _, _)
\* the loop of DiffusionSequential.forward from stage k on
SequentialFrom(stages, k, t, acc) ==
    IF k > Len(stages) \/ acc.status # "ok" THEN acc
    ELSE LET with_t == stages[k].kind = "ConditionalLinear"
             out == IF with_t THEN CallWithInputAndT(stages[k], acc.rows, t)
                    ELSE CallWithInput(stages[k], acc.rows)
         IN SequentialFrom(stages, k + 1, t,
                [status |-> out.status, rows |-> out.rows,
                 log |-> Append(acc.log, Invoked(stages[k], acc.rows, with_t, t, out))])

\* DiffusionSequential.forward(input, t)
DiffusionSequentialForward(stages, input, t) ==
    SequentialFrom(stages, 1, t, [status |-> "ok", rows |-> input, log |-> <<>>])

\* ---------------------------------------------- ConditionalGuidedLinearModel
\* An argument of forward: a tensor, None, or some other object.
IsTensor(a) == a.kind = "tensor"
None == [kind |-> "None", rows |-> <<>>]

\* torch.cat(parts, dim=1) of 2-D tensors
Cat(parts) ==
    IF \E k \in 1..Len(parts) : ~IsTensor(parts[k]) THEN Fail("TypeError")
    ELSE IF \E k \in 1..Len(parts) : Batch(parts[k].rows) # Batch(parts[1].rows)
    THEN Fail("ShapeError")
    ELSE Done([i \in 1..Batch(parts[1].rows) |->
                 IF Len(parts) = 2 THEN parts[1].rows[i] \o parts[2].rows[i]
                 ELSE parts[1].rows[i] \o parts[2].rows[i] \o parts[3].rows[i]])

RECURSIVE GatedStack(_, _, _, _, _, _)
\* the loop of ConditionalGuidedLinearModel.__init__ from layer idx on
GatedStack(layer_sizes, idx, n_steps, activation_fn, wp, gp) ==
    IF idx >= Len(layer_sizes) THEN <<>>
    ELSE <<ConditionalLinear(layer_sizes[idx], layer_sizes[idx + 1], n_steps, wp, gp),
           activation_fn>>
         \o GatedStack(layer_sizes, idx + 1, n_steps, activation_fn, wp, gp)

\* ConditionalGuidedLinearModel(n_steps, x_dim, y_dim, n_hidden, n_outputs, cat_x,
\* cat_y_pred, activation_fn) with the given parameter values
ConditionalGuidedLinearModel(n_steps, x_dim, y_dim, n_hidden, n_outputs, cat_x, cat_y_pred, activation_fn, wp, gp) ==
    LET data_dim == y_dim + (IF cat_x THEN x_dim ELSE 0) + (IF cat_y_pred THEN y_dim ELSE 0)
        layer_sizes == <<data_dim>> \o n_hidden
        last == layer_sizes[Len(layer_sizes)]
    IN [kind |-> "ConditionalGuidedLinearModel",
        n_steps |-> n_steps, x_dim |-> x_dim, y_dim |-> y_dim,
        cat_x |-> cat_x, cat_y_pred |-> cat_y_pred,
        model |-> GatedStack(layer_sizes, 1, n_steps, activation_fn, wp, gp)
                  \o <<[kind |-> "Linear",
                        lin |-> [n_inputs |-> last, n_outputs |-> n_outputs,
                                 weight |-> Tensor(n_outputs, last, "one"),
                                 bias |-> Tensor(1, n_outputs, "half")[1]]]>>]

\* self.model(eps_pred, t)
RunModel(g, eps_pred, t) ==
    IF eps_pred.status # "ok" THEN [status |-> eps_pred.status, rows |-> <<>>, log |-> <<>>]
    ELSE DiffusionSequentialForward(g.model, eps_pred.rows, t)

\* mutant of GuidedLinearForward: the two flags are read the wrong way round
GuidedLinearForward_Swapped(g, x, y_t, y_0_hat, t) ==
    RunModel(g,
        IF g.cat_y_pred
        THEN IF g.cat_x THEN Cat(<<y_t, y_0_hat, x>>) ELSE Cat(<<y_t, x>>)
        ELSE IF g.cat_x THEN Cat(<<y_t, y_0_hat>>)
        ELSE IF IsTensor(y_t) THEN Done(y_t.rows) ELSE Fail("TypeError"),
        t)

\* mutant of GuidedLinearForward: x is concatenated whenever it is given
GuidedLinearForward_AlwaysX(g, x, y_t, y_0_hat, t) ==
    RunModel(g,
        IF g.cat_x \/ x # None
        THEN IF g.cat_y_pred THEN Cat(<<y_t, y_0_hat, x>>) ELSE Cat(<<y_t, x>>)
        ELSE IF g.cat_y_pred THEN Cat(<<y_t, y_0_hat>>)
        ELSE IF IsTensor(y_t) THEN Done(y_t.rows) ELSE Fail("TypeError"),
        t)

\* ConditionalGuidedLinearModel.forward(x, y_t, y_0_hat, t)
GuidedLinearForward(g, x, y_t, y_0_hat, t) ==
    RunModel(g,
        IF g.cat_x
        THEN IF g.cat_y_pred THEN Cat(<<y_t, y_0_hat, x>>) ELSE Cat(<<y_t, x>>)
        ELSE IF g.cat_y_pred THEN Cat(<<y_t, y_0_hat>>)
        ELSE IF IsTensor(y_t) THEN Done(y_t.rows) ELSE Fail("TypeError"),
        t)

\* ------------------------------------------------ ConditionalGuidedConvModel
\* _get_output_layer_name_and_module(encoder)[1].out_features: the output width
\* of the encoder's final linear layer
EncoderOutFeatures(encoder) == encoder.out_features
\* self.encoder(x): the caller's feature extractor, one feature row per sample
EncoderForward(encoder, x) ==
    IF ~IsTensor(x) THEN Fail("TypeError")
    ELSE Done(Tensor(Batch(x.rows), encoder.out_features, encoder.features))

ConvFailed(encoder, g, e) ==
    [status |-> e, encoder |-> encoder, cond_guide_model |-> g, n_steps |-> 0,
     norm |-> [kind |-> "none"], connect_module |-> <<>>]

\* mutant of ConvModelInit: y_dim compared with the encoder width, not its double
ConvModelInit_SameWidth(encoder, g) ==
    IF g.cat_x # FALSE THEN ConvFailed(encoder, g, "AssertionError")
    ELSE IF g.cat_y_pred # FALSE THEN ConvFailed(encoder, g, "AssertionError")
    ELSE LET encoder_out_features == EncoderOutFeatures(encoder)
         IN IF encoder_out_features # g.y_dim
            THEN ConvFailed(encoder, g, "AssertionError")
            ELSE [status |-> "ok", encoder |-> encoder, cond_guide_model |-> g,
                  n_steps |-> g.n_steps,
                  norm |-> [kind |-> "BatchNorm1d", num_features |-> encoder_out_features,
                            eps |-> DefaultEps],
                  connect_module |->
                      <<ConditionalLinear(encoder_out_features, encoder_out_features,
                                          g.n_steps, "identity", "steps"),
                        [kind |-> "BatchNorm1d", num_features |-> encoder_out_features,
                         eps |-> encoder_out_features * TScale * TScale],
                        [kind |-> "Softplus"]>>]

\* ConditionalGuidedConvModel(encoder, cond_guide_model)
ConvModelInit(encoder, g) ==
    IF g.cat_x # FALSE THEN ConvFailed(encoder, g, "AssertionError")
    ELSE IF g.cat_y_pred # FALSE THEN ConvFailed(encoder, g, "AssertionError")
    ELSE LET encoder_out_features == EncoderOutFeatures(encoder)
         IN IF encoder_out_features * 2 # g.y_dim
            THEN ConvFailed(encoder, g, "AssertionError")
            ELSE [status |-> "ok", encoder |-> encoder, cond_guide_model |-> g,
                  n_steps |-> g.n_steps,
                  norm |-> [kind |-> "BatchNorm1d", num_features |-> encoder_out_features,
                            eps |-> DefaultEps],
                  connect_module |->
                      <<ConditionalLinear(encoder_out_features, encoder_out_features,
                                          g.n_steps, "identity", "steps"),
                        [kind |-> "BatchNorm1d", num_features |-> encoder_out_features,
                         eps |-> encoder_out_features * TScale * TScale],
                        [kind |-> "Softplus"]>>]

ConvResult(r, x, y, prod) ==
    [status |-> r.status, rows |-> r.rows, log |-> r.log,
     x_width |-> x, y_width |-> y, prod_width |-> prod]
Stopped(e) == [status |-> e, rows |-> <<>>, log |-> <<>>]

\* ConditionalGuidedConvModel.forward(x, y_t, y_0_hat, t)
ConvModelForward(c, x, y_t, y_0_hat, t) ==
    LET enc == EncoderForward(c.encoder, x)
        normed == IF enc.status = "ok" THEN BatchNorm1d(c.norm, enc.rows) ELSE enc
        connected == IF normed.status = "ok"
                     THEN DiffusionSequentialForward(c.connect_module, normed.rows, t)
                     ELSE Stopped(normed.status)
        y == IF connected.status = "ok" THEN Cat(<<y_t, y_0_hat>>)
             ELSE Fail(connected.status)
        prod == IF y.status = "ok" THEN BroadcastMul(connected.rows, y.rows) ELSE y
    IN IF connected.status # "ok" THEN ConvResult(Stopped(connected.status), 0, 0, 0)
       ELSE IF y.status # "ok"
       THEN ConvResult(Stopped(y.status), Width(connected.rows), 0, 0)
       ELSE IF prod.status # "ok"
       THEN ConvResult(Stopped(prod.status), Width(connected.rows), Width(y.rows), 0)
       ELSE ConvResult(GuidedLinearForward(c.cond_guide_model, None,
                                           [kind |-> "tensor", rows |-> prod.rows], None, t),
                       Width(connected.rows), Width(y.rows), Width(prod.rows))

\* ------------------------------------------------------------ call inputs
ScheduleNames ==
    {"linear", "const", "quad", "jsd", "sigmoid", "cosine", "cosine_anneal", "exp"}
SixKinds == {"linear", "const", "quad", "sigmoid", "cosine", "cosine_anneal"}
\* beta_start, beta_end as Python floats, all strictly between 0 and 1
BetaValues == {1, 100, 5000, Scale - 1}
SequenceNames == {"alphas_bar_sqrt", "one_minus_alphas_bar_sqrt"}
\* batches of step indices, from one below to one above the valid range
Indices(n) == UNION {[1..k -> (0 - 1)..n] : k \in 0..MaxBatch}
Shapes == UNION {[1..k -> {2}] : k \in 0..MaxRank}

NoNoisy == [status |-> "none", input |-> <<>>, t |-> <<>>, xshape |-> <<>>,
            shape |-> <<>>, data |-> <<>>]
InDims == {1, 2}
WeightPatterns == {"zero", "identity", "ramp"}
GatePatterns == {"half", "steps", "lastcol"}
InputPatterns == {"ramp", "tiny", "axis"}
\* batches of step indices for a layer with n gate rows: one index per sample,
\* or a single index (valid or one outside the table) shared by the batch
StepBatches(n) == [1..MaxBatch -> 0..(n - 1)] \cup {<<c>> : c \in (0 - 1)..n}
NoLayer == [kind |-> "none"]
StageKinds ==
    {"ConditionalLinear", "Linear", "Softplus", "BatchNorm1d", "DiffusionSequential",
     "ConditionalGuidedLinearModel"}
PipeInputs == {"ramp", "axis"}
PipeWidths == {2}
\* a stage of the named kind, every layer of width w
Stage(kind, w, n_steps) ==
    CASE kind = "ConditionalLinear" -> ConditionalLinear(w, w, n_steps, "ramp", "steps")
      [] kind = "Linear" ->
            [kind |-> "Linear",
             lin |-> [n_inputs |-> w, n_outputs |-> w, weight |-> Tensor(w, w, "identity"),
                      bias |-> Tensor(1, w, "half")[1]]]
      [] kind = "BatchNorm1d" -> [kind |-> "BatchNorm1d", num_features |-> w, eps |-> DefaultEps]
      [] kind = "DiffusionSequential" ->
            [kind |-> "DiffusionSequential",
             stages |-> <<ConditionalLinear(w, w, n_steps, "identity", "half"),
                          [kind |-> "Softplus"]>>]
      [] OTHER -> [kind |-> kind]
OutDims == {1, 2}
\* n_hidden: the first k of the hidden widths 3, 2, 3, ...
HiddenWidths(k) == [i \in 1..k |-> 2 + (i % 2)]
TensorArg(n, w, p) == [kind |-> "tensor", rows |-> Tensor(n, w, p)]
\* values for an argument forward may not read: None, a string, a tensor of the
\* wrong shape, or a tensor of the documented shape
Garbage == [kind |-> "str", rows |-> <<>>]
WrongShape == TensorArg(MaxBatch + 1, MaxDim + 1, "one")
\* batches of valid step indices: all zero, or cycling through the steps
ValidSteps(n) == {[i \in 1..MaxBatch |-> 0], [i \in 1..MaxBatch |-> (i - 1) % n]}
NoGuide == [kind |-> "none"]
NoConv == [status |-> "none"]
NoPipe == [stages |-> <<>>, input |-> <<>>, t |-> <<>>, kind |-> "none"]
NoRun == [status |-> "none", rows |-> <<>>, log |-> <<>>]

\* NoiseScheduler(schedule, n_steps, beta_start, beta_end)
NewNoiseScheduler ==
    /\ sched.status = "new"
    /\ sched' = NoiseSchedulerInit(sched.schedule, sched.n_steps,
                                   sched.beta_start, sched.beta_end)
    /\ UNCHANGED <<noisy, layer, calls, pipe, run, guide, fwd, conv, cfwd>>

\* NoiseScheduler.get_noisy_x_at_t(self.<sequence>, t, x)
GetNoisyXAtT ==
    /\ sched.status = "ok"
    /\ noisy.status = "none"
    /\ \E name \in SequenceNames, t \in Indices(sched.n_steps), xshape \in Shapes :
          noisy' = get_noisy_x_at_t(sched[name], t, xshape)
    /\ UNCHANGED <<sched, layer, calls, pipe, run, guide, fwd, conv, cfwd>>

\* ConditionalLinear.forward(x, t): one call on the layer, x being the same
\* input in every call
ForwardConditionalLinear ==
    /\ layer.kind = "ConditionalLinear"
    /\ Len(calls) < 2
    /\ \E t \in StepBatches(layer.m.n_steps) :
          calls' = Append(calls, [t |-> t,
                                  out |-> ConditionalLinearForward(layer.m, layer.x, t)])
    /\ UNCHANGED <<sched, noisy, layer, pipe, run, guide, fwd, conv, cfwd>>

\* DiffusionSequential.forward(input, t) on the pipeline
ForwardDiffusionSequential ==
    /\ pipe.kind = "DiffusionSequential"
    /\ run.status = "none"
    /\ run' = DiffusionSequentialForward(pipe.stages, pipe.input, pipe.t)
    /\ UNCHANGED <<sched, noisy, layer, calls, pipe, guide, fwd, conv, cfwd>>

\* ConditionalGuidedLinearModel.forward(x, y_t, y_0_hat, t)
ForwardGuidedLinear ==
    /\ guide.kind = "ConditionalGuidedLinearModel"
    /\ Len(fwd) < 2
    /\ \E x \in {None, WrongShape, TensorArg(MaxBatch, guide.x_dim, "ramp")},
          y_t \in {TensorArg(MaxBatch, guide.y_dim, p) : p \in {"axis", "steps"}},
          y_0_hat \in {None, Garbage, TensorArg(MaxBatch, guide.y_dim, "lastcol")},
          t \in ValidSteps(guide.n_steps) :
          fwd' = Append(fwd, [x |-> x, y_t |-> y_t, y_0_hat |-> y_0_hat, t |-> t,
                              out |-> GuidedLinearForward(guide, x, y_t, y_0_hat, t)])
    /\ UNCHANGED <<sched, noisy, layer, calls, pipe, run, guide, conv, cfwd>>

\* ConditionalGuidedConvModel(encoder, cond_guide_model)
NewConvModel ==
    /\ conv.status = "new"
    /\ conv' = ConvModelInit(conv.encoder, conv.cond_guide_model)
    /\ UNCHANGED <<sched, noisy, layer, calls, pipe, run, guide, fwd, cfwd>>

\* ConditionalGuidedConvModel.forward(x, y_t, y_0_hat, t)
ForwardConvModel ==
    /\ conv.status = "ok"
    /\ cfwd.status = "none"
    /\ \E n \in 1..MaxBatch, wy \in 1..MaxDim, w0 \in 1..MaxDim,
          t \in ValidSteps(conv.n_steps) :
          cfwd' = [n |-> n, y_t_width |-> wy, y_0_hat_width |-> w0] @@
                  ConvModelForward(conv, TensorArg(n, 3, "ramp"),
                                   TensorArg(n, wy, "steps"), TensorArg(n, w0, "lastcol"),
                                   SubSeq(t, 1, n))
    /\ UNCHANGED <<sched, noisy, layer, calls, pipe, run, guide, fwd, conv>>

vars == <<sched, noisy, layer, calls, pipe, run, guide, fwd, conv, cfwd>>
varsSched == vars
InitSched ==
    /\ \E schedule \in ScheduleNames, n \in 0..MaxSteps,
          bs \in BetaValues, be \in BetaValues :
          /\ bs < be
          /\ sched = Failed(schedule, n, bs, be, "new")
    /\ noisy = NoNoisy
    /\ layer = NoLayer /\ calls = <<>>
    /\ pipe = NoPipe /\ run = NoRun
    /\ guide = NoGuide /\ fwd = <<>> /\ conv = NoConv /\ cfwd = NoRun
NextSched == NewNoiseScheduler \/ GetNoisyXAtT
SpecSched == InitSched /\ [][NextSched]_varsSched

InitCondLinear ==
    /\ sched = Failed("", 0, 0, 0, "none") /\ noisy = NoNoisy
    /\ \E n_inputs \in InDims, n_outputs \in 1..MaxDim, n_steps \in 1..MaxGateSteps,
          wp \in WeightPatterns, gp \in GatePatterns, xp \in InputPatterns :
          layer = [kind |-> "ConditionalLinear",
                   m |-> ConditionalLinear(n_inputs, n_outputs, n_steps, wp, gp),
                   x |-> Tensor(MaxBatch, n_inputs, xp)]
    /\ calls = <<>>
    /\ pipe = NoPipe /\ run = NoRun
    /\ guide = NoGuide /\ fwd = <<>> /\ conv = NoConv /\ cfwd = NoRun
NextCondLinear == ForwardConditionalLinear
SpecCondLinear == InitCondLinear /\ [][NextCondLinear]_vars

InitSequential ==
    /\ sched = Failed("", 0, 0, 0, "none") /\ noisy = NoNoisy
    /\ layer = NoLayer /\ calls = <<>>
    /\ \E len \in 0..MaxStages, w \in PipeWidths, xp \in PipeInputs :
       \E kinds \in [1..len -> StageKinds], t \in StepBatches(MaxGateSteps) :
          pipe = [kind |-> "DiffusionSequential",
                  stages |-> [k \in 1..len |-> Stage(kinds[k], w, MaxGateSteps)],
                  input |-> Tensor(MaxBatch, w, xp), t |-> t]
    /\ run = NoRun
    /\ guide = NoGuide /\ fwd = <<>> /\ conv = NoConv /\ cfwd = NoRun
NextSequential == ForwardDiffusionSequential
SpecSequential == InitSequential /\ [][NextSequential]_vars

InitGuided ==
    /\ sched = Failed("", 0, 0, 0, "none") /\ noisy = NoNoisy
    /\ layer = NoLayer /\ calls = <<>>
    /\ pipe = NoPipe /\ run = NoRun
    /\ \E x_dim \in 1..MaxDim, y_dim \in OutDims, hidden \in 0..MaxHidden,
          cat_x \in BOOLEAN, cat_y_pred \in BOOLEAN :
          guide = ConditionalGuidedLinearModel(MaxGateSteps, x_dim, y_dim,
                      HiddenWidths(hidden), 1, cat_x, cat_y_pred,
                      [kind |-> "Softplus"], "ramp", "steps")
    /\ fwd = <<>> /\ conv = NoConv /\ cfwd = NoRun
NextGuided == ForwardGuidedLinear
SpecGuided == InitGuided /\ [][NextGuided]_vars

InitConv ==
    /\ sched = Failed("", 0, 0, 0, "none") /\ noisy = NoNoisy
    /\ layer = NoLayer /\ calls = <<>>
    /\ pipe = NoPipe /\ run = NoRun
    /\ guide = NoGuide /\ fwd = <<>>
    /\ \E w \in 1..MaxDim, y_dim \in 1..(2 * MaxDim), hidden \in 0..MaxHidden,
          cat_x \in BOOLEAN, cat_y_pred \in BOOLEAN :
          conv = ConvFailed([kind |-> "Encoder", out_features |-> w, features |-> "ramp"],
                            ConditionalGuidedLinearModel(MaxGateSteps, 1, y_dim,
                                HiddenWidths(hidden), 1, cat_x, cat_y_pred,
                                [kind |-> "Softplus"], "ramp", "steps"),
                            "new")
    /\ cfwd = NoRun
NextConv == NewConvModel \/ ForwardConvModel
SpecConv == InitConv /\ [][NextConv]_vars

\* ------------------------------------------------------------------ claims
Constructed == sched.status = "ok"
Attempted == sched.status # "new"

\* C1 (as stated): with n_steps >= 2, construction succeeds for each of the six
\* named kinds, and every other schedule string fails with the assertion failure.
C1_SixKindsOrAssertion ==
    (Attempted /\ sched.n_steps >= 2) =>
        IF sched.schedule \in SixKinds THEN sched.status = "ok"
        ELSE sched.status = "AssertionError"

\* C4 (as stated): for n_steps >= 2 and 0 < beta_start < beta_end < 1 the beta
\* sequence has n_steps entries, each strictly between 0 and 1, and
\* alphas_cumprod is non-increasing.
NonIncreasing(s) == \A i \in 1..(Len(s) - 1) : s[i + 1] <= s[i]
C4_StrictlyInside ==
    (Constructed /\ sched.n_steps >= 2) =>
        /\ Len(sched.betas) = sched.n_steps
        /\ \A i \in 1..Len(sched.betas) : 0 < sched.betas[i] /\ sched.betas[i] < TScale
        /\ NonIncreasing(sched.alphas_cumprod)

\* C4 (amended): for n_steps >= 2 and 0 < beta_start < beta_end < 1 the beta
\* sequence has n_steps entries, each in the closed interval [0, 1], and
\* alphas_cumprod has n_steps entries and is non-increasing.
C4_ClosedInterval ==
    (Constructed /\ sched.n_steps >= 2) =>
        /\ Len(sched.betas) = sched.n_steps
        /\ \A i \in 1..Len(sched.betas) : 0 <= sched.betas[i] /\ sched.betas[i] <= TScale
        /\ Len(sched.alphas_cumprod) = sched.n_steps
        /\ NonIncreasing(sched.alphas_cumprod)
\* a scheduler whose tensor holds a beta rounded to exactly 1
C4_Witness ==
    /\ Constructed /\ sched.n_steps >= 2
    /\ 0 < sched.beta_start /\ sched.beta_end < Scale
    /\ \E i \in 1..Len(sched.betas) : sched.betas[i] = TScale

\* C5: for indices t in [0, n_steps) and x of rank r >= 1 the lookup returns a
\* tensor of rank r, first dimension len(t), trailing dimensions 1, whose i-th
\* entry is input[t[i]]; an index outside the range is an index failure.
C5_Lookup ==
    (noisy.status # "none" /\ Len(noisy.xshape) >= 1) =>
        IF \A i \in 1..Len(noisy.t) : 0 <= noisy.t[i] /\ noisy.t[i] < Len(noisy.input)
        THEN /\ noisy.status = "ok"
             /\ Len(noisy.shape) = Len(noisy.xshape)
             /\ noisy.shape[1] = Len(noisy.t)
             /\ \A d \in 2..Len(noisy.shape) : noisy.shape[d] = 1
             /\ Len(noisy.data) = Len(noisy.t)
             /\ \A i \in 1..Len(noisy.t) : noisy.data[i] = noisy.input[noisy.t[i] + 1]
        ELSE noisy.status = "IndexError"
\* a lookup of two different steps against a rank-3 sample
C5_Witness ==
    /\ noisy.status = "ok" /\ Len(noisy.xshape) = 3 /\ Len(noisy.t) = 2
    /\ noisy.t[1] # noisy.t[2] /\ noisy.data[1] # noisy.data[2]
    /\ noisy.shape = <<2, 1, 1>>

\* C10: all six generators are evaluated before the requested one is selected,
\* so construction fails whenever any generator fails; with n_steps = 1 every
\* valid kind fails with the division by zero of the cosine_anneal generator.
C10_EveryGeneratorRuns ==
    Attempted =>
        LET g == Generators(sched.n_steps, sched.beta_start, sched.beta_end)
        IN /\ (\E k \in SixKinds : g[k].raised # "none") => ~Constructed
           /\ sched.n_steps = 1 =>
                 IF sched.schedule \in SixKinds \cup {"jsd"}
                 THEN sched.status = "ZeroDivisionError"
                 ELSE sched.status = "AssertionError"
\* linear with n_steps = 1: its own generator is defined, construction fails
C10_Witness ==
    /\ sched.schedule = "linear" /\ sched.n_steps = 1
    /\ linear_schedule(1, sched.beta_start, sched.beta_end).raised = "none"
    /\ sched.status = "ZeroDivisionError"

\* the gate row ConditionalLinear selects for sample i of call c
GateRow(c, i) == layer.m.embed[c.t[IF Len(c.t) = 1 THEN 1 ELSE i] + 1]
LinOut == Linear(layer.m.lin, layer.x).rows
Gated(c) ==
    /\ Batch(c.out.rows) = Batch(layer.x)
    /\ \A i \in 1..Batch(layer.x) :
          /\ Len(c.out.rows[i]) = layer.m.n_outputs
          /\ \A j \in 1..layer.m.n_outputs :
                c.out.rows[i][j] = TMul(GateRow(c, i)[j], LinOut[i][j])
TwoCalls == Len(calls) = 2 /\ calls[1].out.status = "ok" /\ calls[2].out.status = "ok"

\* C6 (as stated): forward returns linear(x[i]) times the gate row of t[i], and
\* for a fixed x the outputs of two calls differ whenever the gate rows differ.
C6_DifferWheneverGatesDiffer ==
    TwoCalls =>
        /\ Gated(calls[1]) /\ Gated(calls[2])
        /\ \A i \in 1..Batch(layer.x) :
              GateRow(calls[1], i) # GateRow(calls[2], i) =>
                  calls[1].out.rows[i] # calls[2].out.rows[i]

\* C6 (amended): forward returns linear(x[i]) times the gate row of t[i]; for
\* a fixed x the outputs of two calls can differ only in a coordinate where the
\* gate rows differ, and they coincide wherever linear(x) is zero.
C6_DifferOnlyWhereGatesDiffer ==
    /\ \A k \in 1..Len(calls) : calls[k].out.status = "ok" => Gated(calls[k])
    /\ TwoCalls =>
          \A i \in 1..Batch(layer.x), j \in 1..layer.m.n_outputs :
              /\ calls[1].out.rows[i][j] # calls[2].out.rows[i][j] =>
                     GateRow(calls[1], i)[j] # GateRow(calls[2], i)[j]
              /\ LinOut[i][j] = 0 => calls[1].out.rows[i][j] = calls[2].out.rows[i][j]
\* two steps whose gate rows differ everywhere: the outputs differ in one
\* coordinate and coincide in another, where linear(x) is zero
C6_Witness ==
    /\ TwoCalls
    /\ \E i \in 1..Batch(layer.x) :
          /\ \A j \in 1..layer.m.n_outputs :
                GateRow(calls[1], i)[j] # GateRow(calls[2], i)[j]
          /\ \E j \in 1..layer.m.n_outputs :
                calls[1].out.rows[i][j] # calls[2].out.rows[i][j]
          /\ \E j \in 1..layer.m.n_outputs :
                LinOut[i][j] = 0 /\ calls[1].out.rows[i][j] = calls[2].out.rows[i][j]

Ran == run.status # "none"
\* stages are invoked in the order added, each fed the previous stage's output,
\* t handed on unchanged; stages are skipped only after one of them raised
InOrder ==
    /\ Len(run.log) <= Len(pipe.stages)
    /\ \A k \in 1..Len(run.log) :
          /\ run.log[k].kind = pipe.stages[k].kind
          /\ run.log[k].input = IF k = 1 THEN pipe.input ELSE run.log[k - 1].out.rows
          /\ run.log[k].with_t => run.log[k].t = pipe.t
          /\ k < Len(run.log) => run.log[k].out.status = "ok"
    /\ Len(run.log) < Len(pipe.stages) =>
          Len(run.log) > 0 /\ run.log[Len(run.log)].out.status # "ok"
    /\ run.status = "ok" =>
          run.rows = IF Len(run.log) = 0 THEN pipe.input
                     ELSE run.log[Len(run.log)].out.rows

\* C8 (as stated): stages run once each in order, and a stage is invoked with
\* (activation, t) exactly when it requires the time steps, nested containers
\* and models included.
C8_DispatchByCapability ==
    Ran => /\ InOrder
           /\ \A k \in 1..Len(run.log) : run.log[k].with_t <=> RequiresT(run.log[k].kind)

\* C8 (amended): stages run once each in order; a stage is invoked with
\* (activation, t) exactly when it is a ConditionalLinear, and a stage of any
\* other type that requires t is invoked with the activation only, which
\* raises TypeError and ends the forward.
C8_DispatchByType ==
    Ran => /\ InOrder
           /\ \A k \in 1..Len(run.log) :
                 /\ run.log[k].with_t <=> run.log[k].kind = "ConditionalLinear"
                 /\ (RequiresT(run.log[k].kind) /\ run.log[k].kind # "ConditionalLinear") =>
                        /\ run.log[k].out.status = "TypeError"
                        /\ run.status = "TypeError"
                        /\ k = Len(run.log)
\* a pipeline of gated and plain stages run to the end, t reaching the gated ones
C8_Witness ==
    /\ run.status = "ok" /\ Len(run.log) = 3
    /\ run.log[1].kind = "ConditionalLinear" /\ run.log[1].with_t
    /\ run.log[2].kind = "Softplus" /\ ~run.log[2].with_t
    /\ run.log[3].kind = "ConditionalLinear" /\ run.log[3].t = pipe.t
    /\ run.log[3].input = run.log[2].out.rows

ConvBuilt == conv.status \notin {"none", "new"}
\* C2: construction succeeds exactly when the inner model has cat_x = false,
\* cat_y_pred = false and y_dim twice the encoder's output width; otherwise it
\* fails with an assertion failure, and no forward pass runs on a failed one.
C2_ConstructionChecks ==
    /\ ConvBuilt =>
          LET g == conv.cond_guide_model
              w == conv.encoder.out_features
          IN /\ conv.status = "ok" <=> (~g.cat_x /\ ~g.cat_y_pred /\ g.y_dim = 2 * w)
             /\ conv.status # "ok" => conv.status = "AssertionError"
    /\ cfwd.status # "none" => conv.status = "ok"
\* both flags are off and only the width check rejects the configuration
C2_Witness ==
    /\ conv.status = "AssertionError"
    /\ ~conv.cond_guide_model.cat_x /\ ~conv.cond_guide_model.cat_y_pred
    /\ conv.cond_guide_model.y_dim = conv.encoder.out_features

\* C3: with cat_x = False and cat_y_pred = False two forward calls with the
\* same y_t and t return the same output whatever is passed for x and y_0_hat.
C3_OnlyYtAndT ==
    (guide.kind # "none" /\ ~guide.cat_x /\ ~guide.cat_y_pred /\ Len(fwd) = 2
        /\ fwd[1].y_t = fwd[2].y_t /\ fwd[1].t = fwd[2].t) =>
        /\ fwd[1].out.status = "ok"
        /\ fwd[2].out.status = "ok"
        /\ fwd[1].out.rows = fwd[2].out.rows
\* the same y_t and t, once with None and once with a tensor of the wrong shape
\* for x, and different values for y_0_hat
C3_Witness ==
    /\ guide.kind # "none" /\ ~guide.cat_x /\ ~guide.cat_y_pred /\ Len(fwd) = 2
    /\ fwd[1].y_t = fwd[2].y_t /\ fwd[1].t = fwd[2].t
    /\ fwd[1].x = None /\ fwd[2].x = WrongShape
    /\ fwd[1].y_0_hat = Garbage /\ fwd[2].y_0_hat # Garbage
    /\ Len(guide.model) > 1
    /\ fwd[2].out.status = "ok"

\* the components forward has to read are tensors of the documented widths
Documented(c) ==
    /\ IsTensor(c.y_t) /\ Width(c.y_t.rows) = guide.y_dim
    /\ guide.cat_y_pred =>
          /\ IsTensor(c.y_0_hat) /\ Width(c.y_0_hat.rows) = guide.y_dim
          /\ Batch(c.y_0_hat.rows) = Batch(c.y_t.rows)
    /\ guide.cat_x =>
          /\ IsTensor(c.x) /\ Width(c.x.rows) = guide.x_dim
          /\ Batch(c.x.rows) = Batch(c.y_t.rows)
\* C7: for every combination of cat_x and cat_y_pred the per-step input is the
\* enabled components in the order [y_t, y_0_hat, x], and its width is the input
\* width of the first layer, y_dim + (x_dim if cat_x) + (y_dim if cat_y_pred).
C7_InputOrderAndWidth ==
    \A k \in 1..Len(fwd) :
        Documented(fwd[k]) =>
            LET c == fwd[k]
                eps_pred == c.out.log[1].input
            IN /\ Len(c.out.log) >= 1
               /\ Batch(eps_pred) = Batch(c.y_t.rows)
               /\ \A i \in 1..Batch(eps_pred) :
                     eps_pred[i] = c.y_t.rows[i]
                                   \o (IF guide.cat_y_pred THEN c.y_0_hat.rows[i] ELSE <<>>)
                                   \o (IF guide.cat_x THEN c.x.rows[i] ELSE <<>>)
               /\ Width(eps_pred) = guide.model[1].lin.n_inputs
               /\ guide.model[1].lin.n_inputs =
                     guide.y_dim + (IF guide.cat_x THEN guide.x_dim ELSE 0)
                                 + (IF guide.cat_y_pred THEN guide.y_dim ELSE 0)
               /\ c.out.status = "ok"
\* all three components concatenated, x and y_0_hat holding different values
C7_Witness ==
    /\ guide.kind # "none" /\ guide.cat_x /\ guide.cat_y_pred /\ Len(fwd) >= 1
    /\ Documented(fwd[1])
    /\ fwd[1].x.rows # fwd[1].y_0_hat.rows
    /\ Width(fwd[1].out.log[1].input) = 2 * guide.y_dim + guide.x_dim
    /\ fwd[1].out.status = "ok"

\* C9 (as stated): for every model that passed the construction checks, forward
\* multiplies two operands of equal width, the product has the width y_dim of
\* the inner model, and the pass returns a tensor of shape [batch, n_outputs].
C9_ForwardCompletes ==
    (cfwd.status # "none" /\ cfwd.n >= 2) =>
        /\ cfwd.x_width = cfwd.y_width
        /\ cfwd.prod_width = conv.cond_guide_model.y_dim
        /\ cfwd.status = "ok"
        /\ Batch(cfwd.rows) = cfwd.n
        /\ \A i \in 1..Batch(cfwd.rows) : Len(cfwd.rows[i]) = 1
====
